---- MODULE Spec2Model ----
(***************************************************************************)
(* Model of the ClearQuote NL->SQL pipeline (src/nl_to_sql_engine.py):     *)
(* SQLValidator, NLToSQLConverter.generate_sql,                            *)
(* DatabaseExecutor.execute_query, AnswerGenerator.generate_answer and     *)
(* ClearQuoteNLSQL.process_query.                                          *)
(*                                                                         *)
(* A Python str is a sequence of one-character strings, so that upper(),   *)
(* the substring test `in`, strip(), rstrip(), count() and re.search() are *)
(* computed character by character.  A Python dict is a record whose       *)
(* DOMAIN is the set of keys present.  An optional value is <<>> (None)    *)
(* or <<v>>.                                                               *)
(***************************************************************************)
EXTENDS Integers, Sequences, FiniteSets, TLC

(***************************************************************************)
(* Bounds of the model.                                                    *)
(***************************************************************************)
\* most fragments appended to a head when building translator candidates
MaxFrags == 2
\* most rows the store returns
MaxRowCount == 6

(***************************************************************************)
(* Python str primitives.                                                  *)
(***************************************************************************)
None == <<>>

Some(v) == <<v>>

LowerLetters == <<"a","b","c","d","e","f","g","h","i","j","k","l","m",
                  "n","o","p","q","r","s","t","u","v","w","x","y","z">>

UpperLetters == <<"A","B","C","D","E","F","G","H","I","J","K","L","M",
                  "N","O","P","Q","R","S","T","U","V","W","X","Y","Z">>

UpperMap == [c \in {LowerLetters[i] : i \in 1..26} |->
               UpperLetters[CHOOSE i \in 1..26 : LowerLetters[i] = c]]

LowerMap == [c \in {UpperLetters[i] : i \in 1..26} |->
               LowerLetters[CHOOSE i \in 1..26 : UpperLetters[i] = c]]

\* str.upper(), one character
UpperChar(c) == IF c \in DOMAIN UpperMap THEN UpperMap[c] ELSE c

\* str.lower(), one character
LowerChar(c) == IF c \in DOMAIN LowerMap THEN LowerMap[c] ELSE c

\* str.upper()
upper(s) == [i \in 1..Len(s) |-> UpperChar(s[i])]

\* str.lower()
lower(s) == [i \in 1..Len(s) |-> LowerChar(s[i])]

\* the characters str.strip() removes and the regex class \s matches
Whitespace == {" ", "\t", "\n", "\r", "\f"}

\* s[i:].startswith(p), i 1-based
MatchAt(s, i, p) ==
    /\ i >= 1
    /\ i + Len(p) - 1 <= Len(s)
    /\ \A j \in 1..Len(p) : s[i + j - 1] = p[j]

\* p in s
Contains(s, p) == \E i \in 1..(Len(s) - Len(p) + 1) : MatchAt(s, i, p)

\* s.startswith(p)
startswith(s, p) == MatchAt(s, 1, p)

\* s.count(c) for a one-character c
count(s, c) == Cardinality({i \in 1..Len(s) : s[i] = c})

\* s.strip()
strip(s) ==
    LET keep == {i \in 1..Len(s) : s[i] \notin Whitespace}
    IN  IF keep = {} THEN <<>>
        ELSE LET lo == CHOOSE i \in keep : \A j \in keep : i <= j
                 hi == CHOOSE i \in keep : \A j \in keep : i >= j
             IN  SubSeq(s, lo, hi)

\* s.rstrip(chars)
rstrip(s, chars) ==
    LET keep == {i \in 1..Len(s) : s[i] \notin chars}
    IN  IF keep = {} THEN <<>>
        ELSE SubSeq(s, 1, CHOOSE i \in keep : \A j \in keep : i >= j)

DigitChars == <<"0","1","2","3","4","5","6","7","8","9">>

RECURSIVE IntToStr(_)
\* str(n) for n >= 0, as an f-string formats an int
IntToStr(n) ==
    IF n < 10 THEN <<DigitChars[n + 1]>>
    ELSE IntToStr(n \div 10) \o <<DigitChars[(n % 10) + 1]>>

(***************************************************************************)
(* SQLValidator                                                            *)
(***************************************************************************)
FORBIDDEN_KEYWORDS == {
    <<"D","R","O","P">>,
    <<"D","E","L","E","T","E">>,
    <<"I","N","S","E","R","T">>,
    <<"U","P","D","A","T","E">>,
    <<"A","L","T","E","R">>,
    <<"C","R","E","A","T","E">>,
    <<"T","R","U","N","C","A","T","E">>,
    <<"G","R","A","N","T">>,
    <<"R","E","V","O","K","E">>,
    <<"E","X","E","C","U","T","E">>,
    <<"E","X","E","C">>,
    <<"C","A","L","L">>,
    <<";","-","-">>,
    <<"U","N","I","O","N">>,
    <<"I","N","T","O"," ","O","U","T","F","I","L","E">>,
    <<"L","O","A","D","_","F","I","L","E">>,
    <<"x","p","_","c","m","d","s","h","e","l","l">> }

SELECT == <<"S","E","L","E","C","T">>

LIMIT == <<"L","I","M","I","T">>

\* the source text of the regular expressions, in list order
injection_patterns == <<
    <<";","\\","s","*","D","R","O","P">>,
    <<";","\\","s","*","D","E","L","E","T","E">>,
    <<"-","-","\\","s">>,
    <<"/","\\","*",".","*","\\","*","/">>,
    <<"@","@","v","e","r","s","i","o","n">>,
    <<"b","e","n","c","h","m","a","r","k","\\","s","*","\\","(">>,
    <<"s","l","e","e","p","\\","s","*","\\","(">> >>

\* re.IGNORECASE match of the literal lit at position i
MatchAtIC(s, i, lit) ==
    /\ i >= 1
    /\ i + Len(lit) - 1 <= Len(s)
    /\ \A j \in 1..Len(lit) : UpperChar(s[i + j - 1]) = UpperChar(lit[j])

\* re.search(lit, s, re.IGNORECASE)
SearchLit(s, lit) == \E i \in 1..(Len(s) - Len(lit) + 1) : MatchAtIC(s, i, lit)

\* re.search(lit1 \s* lit2, s, re.IGNORECASE), lit2 not empty
SearchLitWsLit(s, lit1, lit2) ==
    \E i \in 1..Len(s) :
        /\ MatchAtIC(s, i, lit1)
        /\ \E j \in (i + Len(lit1))..Len(s) :
              /\ \A k \in (i + Len(lit1))..(j - 1) : s[k] \in Whitespace
              /\ MatchAtIC(s, j, lit2)

\* re.search('--\s', s)
SearchDashWs(s) ==
    \E i \in 1..(Len(s) - 2) :
        s[i] = "-" /\ s[i + 1] = "-" /\ s[i + 2] \in Whitespace

\* re.search('/\*.*\*/', s): the dot does not match a newline
SearchBlockComment(s) ==
    \E i \in 1..Len(s) :
        /\ MatchAt(s, i, <<"/","*">>)
        /\ \E j \in (i + 2)..Len(s) :
              /\ MatchAt(s, j, <<"*","/">>)
              /\ \A k \in (i + 2)..(j - 1) : s[k] # "\n"

\* re.search(injection_patterns[n], query, re.IGNORECASE)
re_search(n, query) ==
    CASE n = 1 -> SearchLitWsLit(query, <<";">>, <<"D","R","O","P">>)
      [] n = 2 -> SearchLitWsLit(query, <<";">>, <<"D","E","L","E","T","E">>)
      [] n = 3 -> SearchDashWs(query)
      [] n = 4 -> SearchBlockComment(query)
      [] n = 5 -> SearchLit(query, <<"@","@","v","e","r","s","i","o","n">>)
      [] n = 6 -> SearchLitWsLit(query, <<"b","e","n","c","h","m","a","r","k">>, <<"(">>)
      [] n = 7 -> SearchLitWsLit(query, <<"s","l","e","e","p">>, <<"(">>)

\* the tuple (False, message) validate_query returns; arg is the part of the
\* message that is formatted in
Reject(msg, arg) == [ok |-> FALSE, msg |-> msg, arg |-> arg]

Accept == [ok |-> TRUE, msg |-> "None", arg |-> <<>>]

\* the scan testing `keyword in query` in place of `keyword in query_upper`
ForbiddenHits_NoUpper(query) ==
    {keyword \in FORBIDDEN_KEYWORDS : Contains(query, keyword)}

\* the forbidden keywords the loop over the set can stop at
ForbiddenHits(query) ==
    {keyword \in FORBIDDEN_KEYWORDS : Contains(upper(query), keyword)}

\* the results validate_query can return for query: the loop over the set
\* FORBIDDEN_KEYWORDS visits it in the set's iteration order, which the
\* source does not fix, so it can stop at any keyword that occurs
validate_query(query) ==
    LET query_upper == upper(query)
        hits == ForbiddenHits(query)
        matching == {n \in 1..Len(injection_patterns) : re_search(n, query)}
    IN  IF hits # {}
        THEN {Reject("Forbidden operation detected: ", keyword) : keyword \in hits}
        ELSE IF ~startswith(strip(query_upper), SELECT)
        THEN {Reject("Query must start with SELECT", <<>>)}
        ELSE IF count(query, ";") > 1
        THEN {Reject("Multiple statements not allowed", <<>>)}
        ELSE IF matching # {}
        THEN {Reject("Potential SQL injection detected: ",
                     injection_patterns[CHOOSE n \in matching :
                                            \A m \in matching : n <= m])}
        ELSE {Accept}

\* the default of sanitize_limit's max_limit
max_limit == 1000

\* sanitize_limit testing 'LIMIT' against query in place of query.upper()
sanitize_limit_CaseSensitive(query) ==
    IF ~Contains(query, LIMIT)
    THEN rstrip(query, {";"}) \o <<" ">> \o LIMIT \o <<" ">>
            \o IntToStr(max_limit) \o <<";">>
    ELSE query

sanitize_limit(query) ==
    IF ~Contains(upper(query), LIMIT)
    THEN rstrip(query, {";"}) \o <<" ">> \o LIMIT \o <<" ">>
            \o IntToStr(max_limit) \o <<";">>
    ELSE query

(***************************************************************************)
(* The inputs: candidate SQL strings and translation-service responses.    *)
(***************************************************************************)
\* 'SELECT * FROM vehicle_cards'
ScenarioA == <<"S","E","L","E","C","T"," ","*"," ","F","R","O","M"," ",
               "v","e","h","i","c","l","e","_","c","a","r","d","s">>

\* 'SELECT 1; DROP TABLE vehicle_cards'
ScenarioB == <<"S","E","L","E","C","T"," ","1",";"," ",
               "D","R","O","P"," ","T","A","B","L","E"," ",
               "v","e","h","i","c","l","e","_","c","a","r","d","s">>

\* 'SELECT a FROM t', the query forbidden tokens are inserted into
BaseQuery == <<"S","E","L","E","C","T"," ","a"," ","F","R","O","M"," ","t">>

Heads == { <<>>, <<"S","E","L","E","C","T"," ","1">> }

Frags == {
    <<"S","E","L","E","C","T">>,
    <<"s","e","l","e","c","t">>,
    <<" ">>,
    <<";">>,
    <<"-","-">>,
    <<"\n">>,
    <<"/","*">>,
    <<"*","/">>,
    <<" ","L","I","M","I","T"," ","5">>,
    <<"l","i","m","i","t">>,
    <<"s","l","e","e","p">>,
    <<"(">>,
    <<"c","r","e","a","t","e","d","_","a","t">>,
    <<"@","@","V","e","r","s","i","o","n">>,
    <<"B","e","n","c","h","m","a","r","k">>,
    <<"x">> }

RECURSIVE FragConcat(_)
\* the concatenations of at most n fragments
FragConcat(n) ==
    IF n = 0 THEN { <<>> }
    ELSE LET shorter == FragConcat(n - 1)
         IN  shorter \cup {c \o f : c \in shorter, f \in Frags}

\* s with the letters at even positions in upper case, the others in lower
MixedCase(s) ==
    [i \in 1..Len(s) |-> IF i % 2 = 0 THEN UpperChar(s[i]) ELSE LowerChar(s[i])]

\* the spellings of a forbidden token that differ in letter case only
Spellings(token) == {token, upper(token), lower(token), MixedCase(token)}

\* BaseQuery with a spelling of a forbidden token inserted at any position
TokenCandidates ==
    {SubSeq(BaseQuery, 1, i) \o t \o SubSeq(BaseQuery, i + 1, Len(BaseQuery)) :
        i \in 0..Len(BaseQuery),
        t \in UNION {Spellings(keyword) : keyword \in FORBIDDEN_KEYWORDS}}

\* the column created_at of vehicle_cards and repairs in SCHEMA_INFO
created_at == <<"c","r","e","a","t","e","d","_","a","t">>

\* 'SELECT created_at FROM repairs LIMIT 5'
SelectCreatedAt == SELECT \o <<" ">> \o created_at
    \o <<" ","F","R","O","M"," ","r","e","p","a","i","r","s",
         " ","L","I","M","I","T"," ","5">>

\* BaseQuery with a spelling of created_at inserted at any position
ColumnCandidates ==
    {SubSeq(BaseQuery, 1, i) \o t \o SubSeq(BaseQuery, i + 1, Len(BaseQuery)) :
        i \in 0..Len(BaseQuery), t \in Spellings(created_at)}
    \cup {SelectCreatedAt}

\* 'SELECT 1; DROP TABLE t; DELETE FROM t': two forbidden tokens, two
\* terminators
TwoTokens == <<"S","E","L","E","C","T"," ","1",";"," ",
               "D","R","O","P"," ","T","A","B","L","E"," ","t",";"," ",
               "D","E","L","E","T","E"," ","F","R","O","M"," ","t">>

Candidates ==
    {h \o c : h \in Heads, c \in FragConcat(MaxFrags)}
        \cup TokenCandidates \cup ColumnCandidates
        \cup {ScenarioA, ScenarioB, TwoTokens}

\* the fields of the JSON object the system prompt asks for
Fields == {"sql", "explanation", "assumptions", "confidence"}

\* a JSON object of the translation service: a dict with the keys in keys
JsonObject(keys, sqlValue) ==
    [k \in keys |->
        CASE k = "sql" -> sqlValue
          [] k = "explanation" -> "counts rows"
          [] k = "assumptions" -> <<"last 30 days">>
          [] k = "confidence" -> 90]

\* a str value of the JSON object
Str(chars) == [type |-> "str", value |-> chars]

\* a JSON value that is not a str: null or a number
NonStr(type) == [type |-> type, value |-> <<>>]

\* what client.chat.completions.create and json.loads can produce:
\* create raises, the text does not parse, it parses to a value that is
\* not an object, or it parses to an object
Responses ==
    {[kind |-> k, json |-> JsonObject({}, None)] :
        k \in {"service_error", "unparseable", "not_object"}}
    \cup {[kind |-> "object", json |-> JsonObject(Fields, Str(c))] :
            c \in Candidates}
    \cup {[kind |-> "object", json |-> JsonObject(keys, Str(c))] :
            keys \in SUBSET Fields, c \in {ScenarioA, ScenarioB}}
    \cup {[kind |-> "object", json |-> JsonObject(Fields, NonStr(t))] :
            t \in {"NoneType", "int"}}

(***************************************************************************)
(* NLToSQLConverter.generate_sql                                           *)
(***************************************************************************)
\* the dict returned when validation rejects the candidate
ValidationFailure(verdict, sql_query) ==
    [success |-> FALSE,
     error |-> [prefix |-> "Generated SQL failed validation: ",
                msg |-> verdict.msg, arg |-> verdict.arg],
     sql |-> Some(sql_query)]

\* the dict returned by the except clause; exc is str(e)
GenerationFailure(exc) ==
    [success |-> FALSE,
     error |-> [prefix |-> "Failed to generate SQL: ", msg |-> exc, arg |-> <<>>],
     sql |-> None]

\* response_json with response_json['sql'] and response_json['success'] set
GenerationSuccess(json, sql_query) ==
    [k \in DOMAIN json \cup {"sql", "success"} |->
        CASE k = "sql" -> Some(sql_query)
          [] k = "success" -> TRUE
          [] OTHER -> json[k]]

\* generate_sql with response_json.get('sql', 'SELECT 1')
generate_sql_DefaultSelect(response) ==
    IF response.kind # "object"
    THEN {GenerationFailure("APIConnectionError")}
    ELSE LET response_json == response.json
             sql_value == IF "sql" \in DOMAIN response_json
                          THEN response_json.sql
                          ELSE Str(<<"S","E","L","E","C","T"," ","1">>)
         IN  IF sql_value.type # "str"
             THEN {GenerationFailure("object has no attribute 'upper'")}
             ELSE LET sql_query == sql_value.value
                  IN  {IF ~verdict.ok
                       THEN ValidationFailure(verdict, sql_query)
                       ELSE GenerationSuccess(response_json,
                                              sanitize_limit(sql_query)) :
                          verdict \in validate_query(sql_query)}

\* generate_sql without the `if not is_valid` return
generate_sql_NoValidation(response) ==
    IF response.kind # "object"
    THEN {GenerationFailure("APIConnectionError")}
    ELSE LET response_json == response.json
             sql_value == IF "sql" \in DOMAIN response_json
                          THEN response_json.sql ELSE Str(<<>>)
         IN  IF sql_value.type # "str"
             THEN {GenerationFailure("object has no attribute 'upper'")}
             ELSE {GenerationSuccess(response_json,
                                     sanitize_limit(sql_value.value))}

\* the dicts generate_sql can return when the service answers with response
generate_sql(response) ==
    IF response.kind = "service_error"
    THEN {GenerationFailure("APIConnectionError")}
    ELSE IF response.kind = "unparseable"
    THEN {GenerationFailure("JSONDecodeError")}
    ELSE IF response.kind = "not_object"
    THEN {GenerationFailure("object has no attribute 'get'")}
    ELSE LET response_json == response.json
             \* response_json.get('sql', '')
             sql_value == IF "sql" \in DOMAIN response_json
                          THEN response_json.sql ELSE Str(<<>>)
         IN  IF sql_value.type # "str"
             THEN {GenerationFailure("object has no attribute 'upper'")}
             ELSE LET sql_query == sql_value.value
                  IN  {IF ~verdict.ok
                       THEN ValidationFailure(verdict, sql_query)
                       ELSE GenerationSuccess(response_json,
                                              sanitize_limit(sql_query)) :
                          verdict \in validate_query(sql_query)}

(***************************************************************************)
(* DatabaseExecutor.execute_query                                          *)
(***************************************************************************)
\* a row of the store: the ordered (column, value) items of a RealDictRow
CountRow(n) == << <<"count", n>> >>

CardRow(i) == << <<"card_id", i>>, <<"manufacture_year", 2000 + i>> >>

\* the row sequences fetchall can return
RowSets ==
    { <<>>, <<CountRow(5)>> }
        \cup {[i \in 1..n |-> CardRow(i)] : n \in 1..MaxRowCount}

\* the step of execute_query that raises, "none" when no step does
FailurePoints == {"connect", "cursor", "execute", "fetchall", "dict", "none"}

\* what the store does during one call
StoreOutcomes ==
    {[failAt |-> f, rows |-> <<>>, message |-> "store error in " \o f] :
        f \in FailurePoints \ {"none"}}
    \cup {[failAt |-> "none", rows |-> rows, message |-> ""] : rows \in RowSets}

\* execute_query returning the rows fetched so far from the except clause
execute_query_PartialRows(sql, outcome) ==
    IF outcome.failAt # "none"
    THEN [result |-> [success |-> FALSE, data |-> Some(outcome.rows),
                      row_count |-> 0, error |-> Some(outcome.message)],
          conn |-> IF outcome.failAt = "connect" THEN "absent" ELSE "open"]
    ELSE [result |-> [success |-> TRUE, data |-> Some(outcome.rows),
                      row_count |-> Len(outcome.rows), error |-> None],
          conn |-> "closed"]

\* the dict execute_query returns and the state it leaves the connection in:
\* "absent" when psycopg2.connect raised, "open" after connect,
\* "closed" after conn.close()
execute_query(sql, outcome) ==
    IF outcome.failAt = "connect"
    THEN [result |-> [success |-> FALSE, data |-> None, row_count |-> 0,
                      error |-> Some(outcome.message)],
          conn |-> "absent"]
    ELSE IF outcome.failAt # "none"
    THEN \* the except clause returns without calling conn.close()
         [result |-> [success |-> FALSE, data |-> None, row_count |-> 0,
                      error |-> Some(outcome.message)],
          conn |-> "open"]
    ELSE [result |-> [success |-> TRUE, data |-> Some(outcome.rows),
                      row_count |-> Len(outcome.rows), error |-> None],
          conn |-> "closed"]

(***************************************************************************)
(* AnswerGenerator                                                         *)
(***************************************************************************)
\* a Python str the answer generator builds, as the pieces it is joined from
Text(parts) == [type |-> "str", parts |-> parts]

\* an exception leaving a function
Raised(exc) == [type |-> "exception", parts |-> <<exc>>]

RECURSIVE JoinItems(_)
\* ", ".join([f"{k}: {v}" for k, v in row.items()])
JoinItems(row) ==
    IF row = <<>> THEN <<>>
    ELSE <<row[1][1], ": ", ToString(row[1][2])>>
            \o (IF Len(row) > 1 THEN <<", ">> ELSE <<>>)
            \o JoinItems(Tail(row))

RECURSIVE ListRows(_, _)
\* the numbered lines of rows i.. of results[:5]
ListRows(rows, i) ==
    IF i > Len(rows) THEN <<>>
    ELSE <<ToString(i), ". ">> \o JoinItems(rows[i]) \o <<"\n">>
            \o ListRows(rows, i + 1)

\* the rows the fallback lists
FallbackRows == 5

_format_results_simple(query, results) ==
    IF Len(results) = 1 /\ Len(results[1]) = 1
    THEN Text(<<"Result: ", ToString(results[1][1][2])>>)
    ELSE Text(<<"Found ", ToString(Len(results)), " results:\n\n">>
              \o ListRows(SubSeq(results, 1,
                                 IF Len(results) < FallbackRows
                                 THEN Len(results) ELSE FallbackRows), 1)
              \o (IF Len(results) > FallbackRows
                  THEN <<"\n... and ", ToString(Len(results) - FallbackRows),
                         " more results">>
                  ELSE <<>>))

\* what the rendering service does during one call: it answers with text or
\* client.chat.completions.create raises
RenderOutcomes ==
    {[kind |-> "text", content |-> <<"There are results.">>],
     [kind |-> "raise", content |-> <<>>]}

\* generate_answer without the try/except around the service call
generate_answer_NoFallback(natural_query, sql, results, outcome) ==
    IF results = <<>>
    THEN Text(<<"No results found for your query.">>)
    ELSE IF outcome.kind = "text"
    THEN Text(outcome.content)
    ELSE Raised("APIConnectionError")

generate_answer(natural_query, sql, results, outcome) ==
    IF results = <<>>
    THEN Text(<<"No results found for your query.">>)
    ELSE IF outcome.kind = "text"
    THEN Text(outcome.content)
    ELSE _format_results_simple(natural_query, results)

(***************************************************************************)
(* ClearQuoteNLSQL.process_query, one action per stage.                    *)
(***************************************************************************)
VARIABLES
    pc,          \* the stage process_query is at, or the way it ended
    response,    \* the translation service's response of this run
    sql_result,  \* the dict generate_sql returned
    sql_query,   \* the local sql_query of process_query
    exec_result, \* the dict execute_query returned
    conn,        \* the store connection of the execute_query call
    calls,       \* the collaborators invoked so far, in order
    executed,    \* the arguments execute_query was called with, in order
    store,       \* what the store did during the execute_query call
    render,      \* what the rendering service did during generate_answer
    result       \* the dict process_query returned

vars == <<pc, response, sql_result, sql_query, exec_result, conn, calls,
          executed, store, render, result>>

\* the user's question
natural_language_query == "How many damages on my roof"

NoDict == [stage |-> "unset"]

Init ==
    /\ pc = "GENERATE"
    /\ response = [kind |-> "unset", json |-> JsonObject({}, None)]
    /\ sql_result = NoDict
    /\ sql_query = <<>>
    /\ exec_result = NoDict
    /\ conn = "absent"
    /\ calls = <<>>
    /\ executed = <<>>
    /\ store = [failAt |-> "unset", rows |-> <<>>, message |-> ""]
    /\ render = [kind |-> "unset", content |-> <<>>]
    /\ result = NoDict

\* Step 1: Convert to SQL
Generate ==
    /\ pc = "GENERATE"
    /\ \E resp \in Responses :
        \E r \in generate_sql(resp) :
            /\ response' = resp
            /\ sql_result' = r
            /\ calls' = Append(calls, "translator")
            /\ IF ~r.success
               THEN /\ result' = [success |-> FALSE, error |-> r.error,
                                  stage |-> "sql_generation"]
                    /\ pc' = "FAILED_sql_generation"
                    /\ UNCHANGED sql_query
               ELSE /\ sql_query' = r.sql[1]
                    /\ pc' = "EXECUTE"
                    /\ UNCHANGED result
    /\ UNCHANGED <<exec_result, conn, executed, store, render>>

\* Execute with a retry of the store call in place of the failure return
Execute_Retry ==
    /\ pc = "EXECUTE"
    /\ \E outcome \in StoreOutcomes :
        LET ex == execute_query(sql_query, outcome)
        IN  /\ store' = outcome
            /\ exec_result' = ex.result
            /\ conn' = ex.conn
            /\ calls' = Append(calls, "executor")
            /\ executed' = Append(executed, sql_query)
            /\ pc' = IF ex.result.success THEN "SYNTHESIZE" ELSE "EXECUTE"
            /\ UNCHANGED result
    /\ UNCHANGED <<response, sql_result, sql_query, render>>

\* Step 2: Execute SQL
Execute ==
    /\ pc = "EXECUTE"
    /\ \E outcome \in StoreOutcomes :
        LET ex == execute_query(sql_query, outcome)
        IN  /\ store' = outcome
            /\ exec_result' = ex.result
            /\ conn' = ex.conn
            /\ calls' = Append(calls, "executor")
            /\ executed' = Append(executed, sql_query)
            /\ IF ~ex.result.success
               THEN /\ result' = [success |-> FALSE,
                                  error |-> ex.result.error[1],
                                  sql |-> sql_query,
                                  stage |-> "execution"]
                    /\ pc' = "FAILED_execution"
               ELSE /\ pc' = "SYNTHESIZE"
                    /\ UNCHANGED result
    /\ UNCHANGED <<response, sql_result, sql_query, render>>

\* Step 3: Generate natural language answer, and the final return
Synthesize ==
    /\ pc = "SYNTHESIZE"
    /\ \E outcome \in RenderOutcomes :
        LET answer == generate_answer(natural_language_query, sql_query,
                                      exec_result.data[1], outcome)
        IN  /\ render' = outcome
            /\ calls' = Append(calls, "synthesizer")
            /\ IF answer.type = "exception"
               THEN \* nothing in process_query catches it
                    /\ pc' = "RAISED"
                    /\ UNCHANGED result
               ELSE /\ result' =
                        [success |-> TRUE,
                         query |-> natural_language_query,
                         sql |-> sql_query,
                         assumptions |->
                            IF "assumptions" \in DOMAIN sql_result
                            THEN sql_result.assumptions ELSE <<>>,
                         confidence |->
                            IF "confidence" \in DOMAIN sql_result
                            THEN sql_result.confidence ELSE 0,
                         row_count |-> exec_result.row_count,
                         data |-> exec_result.data[1],
                         answer |-> answer.parts,
                         stage |-> "complete"]
                    /\ pc' = "COMPLETE"
    /\ UNCHANGED <<response, sql_result, sql_query, exec_result, conn,
                   executed, store>>

Next == Generate \/ Execute \/ Synthesize

Spec == Init /\ [][Next]_vars

(***************************************************************************)
(* Properties.                                                             *)
(***************************************************************************)
\* the translator has returned
Generated == Len(calls) >= 1

\* the response of this run is a JSON object whose sql field is a str
HasCandidate ==
    /\ response.kind = "object"
    /\ "sql" \in DOMAIN response.json
    /\ response.json.sql.type = "str"

\* the candidate SQL of this run
candidate == response.json.sql.value

\* C1: the executor is only ever called with the normalized form of a
\* candidate that validate_query accepted; a rejected or unvalidated
\* candidate never reaches execute_query.
C1_ExecutorOnlyValidated ==
    \A i \in 1..Len(executed) :
        /\ HasCandidate
        /\ validate_query(candidate) = {Accept}
        /\ executed[i] = sanitize_limit(candidate)

\* an accepted candidate has reached the executor in its normalized form
C1_Witness ==
    /\ Len(executed) = 1
    /\ candidate = ScenarioA
    /\ executed[1] # candidate

Pipeline == <<"translator", "executor", "synthesizer">>

Terminal == {"FAILED_sql_generation", "FAILED_execution", "COMPLETE"}

\* C2: the collaborators are invoked in the order translator, executor,
\* synthesizer, each at most once; a translator failure ends the run before
\* the executor, an executor failure ends it before the synthesizer; a run
\* that can take no further step is in exactly one of
\* FAILED(sql_generation), FAILED(execution), COMPLETE.
C2_FailStopOrder ==
    /\ Len(calls) <= 3
    /\ calls = SubSeq(Pipeline, 1, Len(calls))
    /\ pc \in Terminal \cup {"GENERATE", "EXECUTE", "SYNTHESIZE"}
    /\ (Generated /\ ~sql_result.success) =>
            (calls = <<"translator">> /\ pc = "FAILED_sql_generation")
    /\ (Len(calls) >= 2 /\ ~exec_result.success) =>
            (calls = <<"translator", "executor">> /\ pc = "FAILED_execution")
    /\ pc = "FAILED_sql_generation" => ~sql_result.success
    /\ pc = "FAILED_execution" => ~exec_result.success
    /\ pc = "COMPLETE" => calls = Pipeline
    /\ (~ENABLED Next) <=> pc \in Terminal

\* a run went through all three stages
C2_Witness == pc = "COMPLETE" /\ calls = Pipeline

\* token occurs in s at some position, in some letter case
OccursAnyCase(s, token) ==
    \E i \in 1..(Len(s) - Len(token) + 1) :
        lower(SubSeq(s, i, i + Len(token) - 1)) = lower(token)

\* the candidate contains a token of the forbidden-operation set
CandidateHasForbiddenToken ==
    \E token \in FORBIDDEN_KEYWORDS : OccursAnyCase(candidate, token)

\* C3: a candidate that contains a forbidden-operation token at any position
\* and in any letter case is rejected with a forbidden-operation reason.
C3_ForbiddenTokenRejected ==
    (Generated /\ HasCandidate /\ CandidateHasForbiddenToken) =>
        /\ ~sql_result.success
        /\ sql_result.error.msg = "Forbidden operation detected: "

\* the generated SQL was accepted and normalized
Normalized == Generated /\ sql_result.success

\* the number of positions of s at which p occurs
Occurrences(s, p) == Cardinality({i \in 1..Len(s) : MatchAt(s, i, p)})

RECURSIVE WithoutTrailingSemicolons(_)
\* s without the semicolons it ends in
WithoutTrailingSemicolons(s) ==
    IF s # <<>> /\ s[Len(s)] = ";"
    THEN WithoutTrailingSemicolons(SubSeq(s, 1, Len(s) - 1))
    ELSE s

\* ' LIMIT 1000'
LimitClause == <<" ","L","I","M","I","T"," ","1","0","0","0">>

\* C4 as stated: an accepted query without a row-limiting clause is
\* normalized to itself followed by ' LIMIT 1000' and nothing else; one that
\* has a row-limiting clause is normalized to itself.
C4_AppendsOnlyLimit ==
    Normalized =>
        IF OccursAnyCase(candidate, LIMIT)
        THEN sql_query = candidate
        ELSE sql_query = candidate \o LimitClause

\* C4 amended: an accepted query that does not contain LIMIT in any letter
\* case is normalized to itself without its trailing semicolons, followed by
\* ' LIMIT 1000;', which contains LIMIT exactly once; one that contains
\* LIMIT is normalized to itself.
C4_AppendsLimitAndTerminator ==
    Normalized =>
        IF OccursAnyCase(candidate, LIMIT)
        THEN sql_query = candidate
        ELSE /\ sql_query = WithoutTrailingSemicolons(candidate)
                                \o LimitClause \o <<";">>
             /\ Occurrences(upper(sql_query), LIMIT) = 1

\* Scenario A has been normalized
C4_Witness ==
    /\ Normalized
    /\ candidate = ScenarioA
    /\ sql_query = ScenarioA \o LimitClause \o <<";">>

\* C5: validating and normalizing the normalized SQL again accepts it and
\* leaves it unchanged.
C5_Idempotent ==
    Normalized =>
        /\ validate_query(sql_query) = {Accept}
        /\ sanitize_limit(sql_query) = sql_query

\* C6: a run whose translator failed returns success=false at stage
\* sql_generation with the translator's error and, when a candidate was
\* rejected, the rejected SQL.
C6_RejectedSqlCarried ==
    (Generated /\ ~sql_result.success) =>
        /\ pc = "FAILED_sql_generation"
        /\ result.success = FALSE
        /\ result.stage = "sql_generation"
        /\ result.error = sql_result.error
        /\ (HasCandidate /\ sql_result.sql # None) =>
              ("sql" \in DOMAIN result /\ result.sql = candidate)

\* the executor has returned
Executed == Len(calls) >= 2

\* C7: when the store fails on a validated query, execute_query returns no
\* rows and the store's message, and process_query returns success=false,
\* stage execution, the validated SQL that was attempted and the store's
\* message, without row data and without an answer.
C7_ExecutionFailure ==
    (Executed /\ store.failAt # "none") =>
        /\ exec_result.success = FALSE
        /\ exec_result.data = None
        /\ exec_result.error = Some(store.message)
        /\ pc = "FAILED_execution"
        /\ DOMAIN result = {"success", "error", "sql", "stage"}
        /\ result.success = FALSE
        /\ result.stage = "execution"
        /\ result.error = store.message
        /\ result.sql = executed[1]
        /\ validate_query(candidate) = {Accept}
        /\ result.sql = sanitize_limit(candidate)

\* the store refused the connection for a validated query
C7_Witness ==
    /\ pc = "FAILED_execution"
    /\ store.failAt = "connect"
    /\ result.stage = "execution"

\* C8: once execution has succeeded the run ends in COMPLETE with
\* success=true whatever the rendering service does; generate_answer returns
\* a string, the local formatter's when the service raises; no error is
\* surfaced.
C8_SynthesisNeverFails ==
    /\ pc # "RAISED"
    /\ (Executed /\ exec_result.success) => pc \in {"SYNTHESIZE", "COMPLETE"}
    /\ Len(calls) = 3 =>
          /\ pc = "COMPLETE"
          /\ result.success = TRUE
          /\ result.stage = "complete"
          /\ "error" \notin DOMAIN result
          /\ Len(result.answer) >= 1
          /\ result.data = <<>> =>
                result.answer = <<"No results found for your query.">>
          /\ (result.data # <<>> /\ render.kind = "text") =>
                result.answer = render.content
          /\ (result.data # <<>> /\ render.kind = "raise") =>
                result.answer[1] \in {"Result: ", "Found "}
          /\ (result.data = <<CountRow(5)>> /\ render.kind = "raise") =>
                result.answer = <<"Result: ", "5">>

\* the rendering service raised and the run completed with the fallback
C8_Witness ==
    /\ pc = "COMPLETE"
    /\ render.kind = "raise"
    /\ result.answer = <<"Result: ", "5">>

\* the response is malformed: it is not a JSON object
Malformed == response.kind \in {"unparseable", "not_object"}

\* C9 as stated: a response that is not a JSON object, or that lacks any of
\* sql, explanation, assumptions, confidence, makes generate_sql fail, the
\* run ends at sql_generation and the executor is not invoked.
C9_AllFieldsRequired ==
    (Generated /\ (Malformed \/ (response.kind = "object"
                                 /\ DOMAIN response.json # Fields))) =>
        /\ ~sql_result.success
        /\ pc = "FAILED_sql_generation"
        /\ executed = <<>>

\* C9 amended: a response that is not a JSON object, or that lacks the sql
\* field, makes generate_sql return success=false with an error message,
\* the run ends at sql_generation and the executor is not invoked.
C9_SqlFieldRequired ==
    (Generated /\ (Malformed \/ (response.kind = "object"
                                 /\ "sql" \notin DOMAIN response.json))) =>
        /\ ~sql_result.success
        /\ sql_result.error.prefix \in {"Failed to generate SQL: ",
                                        "Generated SQL failed validation: "}
        /\ sql_result.error.msg # ""
        /\ pc = "FAILED_sql_generation"
        /\ result.stage = "sql_generation"
        /\ result.error = sql_result.error
        /\ executed = <<>>

\* a JSON object without the sql field has been refused
C9_Witness ==
    /\ pc = "FAILED_sql_generation"
    /\ response.kind = "object"
    /\ "sql" \notin DOMAIN response.json
    /\ "confidence" \in DOMAIN response.json

\* C10: when execute_query has returned, the connection it acquired is
\* released.
C10_ConnectionReleased == Executed => conn # "open"


\* the message of the first check of validate_query that query fails, in the
\* order forbidden-operation scan, statement shape, single statement,
\* injection patterns
FirstFailingCheck(query) ==
    IF ForbiddenHits(query) # {}
    THEN "Forbidden operation detected: "
    ELSE IF ~startswith(strip(upper(query)), SELECT)
    THEN "Query must start with SELECT"
    ELSE IF count(query, ";") > 1
    THEN "Multiple statements not allowed"
    ELSE "Potential SQL injection detected: "

\* C11: the reason validate_query returns for a string is that of the first
\* failing check and is determined by the string: no other validation of
\* the same string returns a different reason.
C11_ReasonDetermined ==
    (Generated /\ HasCandidate /\ ~sql_result.success) =>
        /\ sql_result.error.msg = FirstFailingCheck(candidate)
        /\ \A other \in validate_query(candidate) :
              /\ other.msg = sql_result.error.msg
              /\ other.arg = sql_result.error.arg

\* the candidate mentions the column created_at, in some letter case
MentionsCreatedAt == OccursAnyCase(candidate, created_at)

\* C12: a candidate that mentions created_at in any letter case is rejected
\* by the forbidden-operation scan, so the run ends with success=false at
\* stage sql_generation and the executor is not invoked.
C12_CreatedAtRejected ==
    (Generated /\ HasCandidate /\ MentionsCreatedAt) =>
        /\ \A verdict \in validate_query(candidate) :
              ~verdict.ok /\ verdict.msg = "Forbidden operation detected: "
        /\ ~sql_result.success
        /\ sql_result.error.msg = "Forbidden operation detected: "
        /\ pc = "FAILED_sql_generation"
        /\ result.success = FALSE
        /\ result.stage = "sql_generation"
        /\ executed = <<>>
        /\ calls = <<"translator">>

\* a single read-only SELECT of created_at has been rejected for CREATE
C12_Witness ==
    /\ pc = "FAILED_sql_generation"
    /\ HasCandidate
    /\ candidate = SelectCreatedAt
    /\ sql_result.error.arg = <<"C","R","E","A","T","E">>
    /\ executed = <<>>

====
